---- MODULE Spec2Model ----
(***************************************************************************)
(* A model of arrow-udf's FFI boundary (src/arrow-udf/src/lib.rs):         *)
(* the allocator bridge alloc/dealloc, the batch marshaler call_scalar and *)
(* the boundary wrapper scalar_ffi_wrapper, driven by two host threads     *)
(* that each allocate an input region, fill it, invoke the wrapper and     *)
(* release the buffers they own.                                           *)
(*                                                                         *)
(* Bytes are naturals below 256.  The columnar exchange codec (arrow_ipc)  *)
(* is an external library; it is modelled by a small self-describing file  *)
(* format with the same shape: magic, schema, record-batch blocks, a       *)
(* footer that counts the blocks, magic.                                   *)
(***************************************************************************)
EXTENDS Integers, Sequences, FiniteSets, TLC

\* Largest row count of an input batch.
MaxRows == 3

Threads == {"t1", "t2"}

-----------------------------------------------------------------------------
(* Text.  A text is a sequence of code points; a buffer is a sequence of   *)
(* bytes.  String -> bytes is UTF-8 (code points below 2048 are enough).   *)

RECURSIVE Utf8Encode(_)
Utf8Encode(text) ==
    IF text = <<>> THEN <<>>
    ELSE LET c == Head(text)
         IN (IF c < 128 THEN <<c>>
             ELSE <<192 + (c \div 64), 128 + (c % 64)>>) \o Utf8Encode(Tail(text))

RECURSIVE Utf8Valid(_)
Utf8Valid(bytes) ==
    IF bytes = <<>> THEN TRUE
    ELSE LET b == Head(bytes)
         IN IF b < 128 THEN Utf8Valid(Tail(bytes))
            ELSE IF b >= 194 /\ b < 224
                 THEN /\ Len(bytes) >= 2
                      /\ bytes[2] >= 128 /\ bytes[2] < 192
                      /\ Utf8Valid(Tail(Tail(bytes)))
                 ELSE FALSE

\* arrow_schema::ArrowError (re-exported as Error): a variant and its text.
MkError(variant, desc) == [variant |-> variant, desc |-> desc]

\* "Parser error: ", "Io error: ", "Compute error: ", "Invalid argument error: "
ErrorPrefix(variant) ==
    CASE variant = "ParseError" ->
           <<80, 97, 114, 115, 101, 114, 32, 101, 114, 114, 111, 114, 58, 32>>
      [] variant = "IoError" ->
           <<73, 111, 32, 101, 114, 114, 111, 114, 58, 32>>
      [] variant = "ComputeError" ->
           <<67, 111, 109, 112, 117, 116, 101, 32, 101, 114, 114, 111, 114, 58, 32>>
      [] OTHER ->
           <<73, 110, 118, 97, 108, 105, 100, 32, 97, 114, 103, 117, 109, 101,
             110, 116, 32, 101, 114, 114, 111, 114, 58, 32>>

\* err.to_string(): the Display text of the error.
to_string(err) == ErrorPrefix(err.variant) \o err.desc

-----------------------------------------------------------------------------
(* The columnar data model and the exchange codec.                         *)

\* "ARROW1"
MAGIC == <<65, 82, 82, 79, 87, 49>>
\* "result", "x"
RESULT == <<114, 101, 115, 117, 108, 116>>
COLX == <<120>>

TypeCode(ty) ==
    CASE ty = "int32" -> 1 [] OTHER -> 2

TypeOfCode(c) ==
    CASE c = 1 -> "int32" [] OTHER -> "boolean"

Field_new(name, ty, nullable) == [name |-> name, type |-> ty, nullable |-> nullable]

RECURSIVE Flatten(_)
Flatten(seqs) == IF seqs = <<>> THEN <<>> ELSE Head(seqs) \o Flatten(Tail(seqs))

EncodeField(f) ==
    <<Len(f.name)>> \o f.name \o <<TypeCode(f.type), IF f.nullable THEN 1 ELSE 0>>

EncodeSchema(schema) ==
    <<Len(schema)>> \o Flatten([i \in 1..Len(schema) |-> EncodeField(schema[i])])

\* A record-batch block: the row count, then each column's values.
EncodeBlock(batch) == <<batch.rows>> \o Flatten(batch.columns)

EncodeFooter(blocks) == <<blocks>> \o MAGIC

\* Fields are read from position pos; they must end at or before position lim.
RECURSIVE ReadFields(_, _, _, _)
ReadFields(b, pos, k, lim) ==
    IF k = 0 THEN [ok |-> TRUE, fields |-> <<>>, next |-> pos]
    ELSE IF pos > lim \/ pos + b[pos] + 2 > lim
         THEN [ok |-> FALSE, fields |-> <<>>, next |-> pos]
    ELSE LET nl == b[pos]
             tc == b[pos + nl + 1]
             nu == b[pos + nl + 2]
             rest == ReadFields(b, pos + nl + 3, k - 1, lim)
         IN IF tc \notin 1..2 \/ nu \notin 0..1 \/ ~rest.ok
            THEN [ok |-> FALSE, fields |-> <<>>, next |-> pos]
            ELSE [ok |-> TRUE,
                  fields |-> <<Field_new(SubSeq(b, pos + 1, pos + nl),
                                         TypeOfCode(tc), nu = 1)>> \o rest.fields,
                  next |-> rest.next]

\* "bad magic", "bad schema", "eof", "refused"
DescMagic == <<98, 97, 100, 32, 109, 97, 103, 105, 99>>
DescSchema == <<98, 97, 100, 32, 115, 99, 104, 101, 109, 97>>
DescEof == <<101, 111, 102>>
DescRefused == <<114, 101, 102, 117, 115, 101, 100>>

\* FileReader::try_new: checks the magic at both ends, reads the footer's block
\* count and the schema.  Err for bytes that are no columnar file.
FileReader_try_new(b) ==
    LET n == Len(b) IN
    IF n < 2 * Len(MAGIC) + 2
    THEN [ok |-> FALSE, err |-> MkError("ParseError", DescEof)]
    ELSE IF SubSeq(b, 1, Len(MAGIC)) # MAGIC \/ SubSeq(b, n - Len(MAGIC) + 1, n) # MAGIC
    THEN [ok |-> FALSE, err |-> MkError("ParseError", DescMagic)]
    ELSE LET lim == n - Len(MAGIC) - 1
             fs == ReadFields(b, Len(MAGIC) + 2, b[Len(MAGIC) + 1], lim)
         IN IF ~fs.ok
            THEN [ok |-> FALSE, err |-> MkError("ParseError", DescSchema)]
            ELSE [ok |-> TRUE, schema |-> fs.fields, blocks |-> b[lim + 1],
                  pos |-> fs.next, lim |-> lim, bytes |-> b]

\* reader.next(): None when the footer lists no block, Some(Err) when the first
\* block does not decode, Some(Ok(batch)) otherwise.
FileReader_next(r) ==
    IF r.blocks = 0 THEN [tag |-> "none"]
    ELSE IF r.pos > r.lim \/ r.pos + Len(r.schema) * r.bytes[r.pos] > r.lim
    THEN [tag |-> "err", err |-> MkError("IoError", DescEof)]
    ELSE LET rows == r.bytes[r.pos]
         IN [tag |-> "ok",
             batch |-> [schema |-> r.schema, rows |-> rows,
                        columns |-> [c \in 1..Len(r.schema) |->
                            SubSeq(r.bytes, r.pos + 1 + (c - 1) * rows,
                                   r.pos + c * rows)]]]

\* The whole file the writer produces for one batch.
IpcFile(batch) ==
    MAGIC \o EncodeSchema(batch.schema) \o EncodeBlock(batch) \o EncodeFooter(1)

\* A well-formed file with a schema and no batch.
IpcEmptyFile(schema) == MAGIC \o EncodeSchema(schema) \o EncodeFooter(0)

-----------------------------------------------------------------------------
(* Scalar functions: fn(input: &RecordBatch) -> Result<ArrayRef>.  The      *)
(* wrapper is generic in the function; these are the sample functions the   *)
(* model is run with.                                                       *)

Functions == {"add_one", "is_even", "drop_last", "fail"}

\* "café" (one two-byte code point)
DescFail == <<99, 97, 102, 233>>

Array_new(ty, values) == [type |-> ty, values |-> values]

\* function(&input_batch)
Apply(f, batch) ==
    LET col == IF Len(batch.columns) = 0 THEN <<>> ELSE batch.columns[1]
        n == Len(col)
    IN CASE f = "add_one" ->
              [ok |-> TRUE, array |-> Array_new("int32", [i \in 1..n |-> col[i] + 1])]
         [] f = "is_even" ->
              [ok |-> TRUE,
               array |-> Array_new("boolean",
                                   [i \in 1..n |-> IF col[i] % 2 = 0 THEN 1 ELSE 0])]
         [] f = "drop_last" ->
              [ok |-> TRUE,
               array |-> Array_new("int32", IF n = 0 THEN <<>> ELSE SubSeq(col, 1, n - 1))]
         [] OTHER ->
              [ok |-> FALSE, err |-> MkError("ComputeError", DescFail)]

-----------------------------------------------------------------------------
(* The inputs the host passes: well-formed files of one batch, a           *)
(* well-formed file of no batch, and bytes that are no file.               *)

InputSchema == <<Field_new(COLX, "int32", FALSE)>>

InputBatch(n) ==
    [schema |-> InputSchema, rows |-> n, columns |-> <<[i \in 1..n |-> i]>>]

OneBatchInputs == {IpcFile(InputBatch(n)) : n \in 0..MaxRows}

ZeroBatchInput == IpcEmptyFile(InputSchema)

\* The empty buffer, a truncated header, a damaged magic, a block cut short.
MalformedInputs ==
    { <<>>,
      SubSeq(IpcFile(InputBatch(1)), 1, Len(MAGIC) + 2),
      <<0>> \o Tail(IpcFile(InputBatch(1))),
      MAGIC \o EncodeSchema(InputSchema) \o <<3, 1>> \o EncodeFooter(1) }

Inputs == OneBatchInputs \cup {ZeroBatchInput} \cup MalformedInputs

-----------------------------------------------------------------------------
(* The heap: live regions by address.  A region has the size its layout    *)
(* was allocated with and the bytes written to it.                         *)

VARIABLES
    heap,   \* address -> [size, bytes], the live regions
    ub,     \* the contract violations committed by dealloc calls so far
    th      \* per host thread: the call in progress and what the thread owns

vars == <<heap, ub, th>>

Region(size, bytes) == [size |-> size, bytes |-> bytes]

Max(a, b) == IF a >= b THEN a ELSE b

\* The allocator hands out an address that is not live.
FreshPtr(h) ==
    CHOOSE p \in 1..(Cardinality(DOMAIN h) + 1) :
        /\ p \notin DOMAIN h
        /\ \A q \in 1..(p - 1) : q \in DOMAIN h

Remove(h, p) == [q \in (DOMAIN h) \ {p} |-> h[q]]

\* alloc(len): std::alloc::alloc(Layout::from_size_align_unchecked(len, 1)).
\* A zero-size layout breaks the allocator's contract; the call may then
\* return a region of no bytes or a null pointer.  The set of outcomes.
alloc(h, len) ==
    LET p == FreshPtr(h)
        fresh == [ptr |-> p, heap |-> h @@ (p :> Region(len, <<>>)), ub |-> {}]
    IN IF len > 0 THEN {fresh}
       ELSE { [fresh EXCEPT !.ub = {"alloc_zero_size"}],
              [ptr |-> 0, heap |-> h, ub |-> {"alloc_zero_size"}] }

\* dealloc(ptr, len): std::alloc::dealloc(ptr, Layout(len, 1)).  Undefined
\* unless ptr is a live region that was allocated with this very size.
dealloc(h, ptr, len) ==
    IF ptr \in DOMAIN h /\ h[ptr].size = len
    THEN [heap |-> Remove(h, ptr), ub |-> {}]
    ELSE [heap |-> IF ptr \in DOMAIN h THEN Remove(h, ptr) ELSE h,
          ub |-> {"dealloc_mismatch"}]

\* std::slice::from_raw_parts(ptr, len): the bytes of the input region.
from_raw_parts(h, ptr, len) == SubSeq(h[ptr].bytes, 1, len)

\* Vec<u8> growth: the capacity after making room for need bytes.
GrowCap(cap, need) == IF need <= cap THEN cap ELSE Max(Max(2 * cap, need), 8)

\* A variant of VecNew that serialises into one process-wide buffer.
VecNewStatic(h, bytes) ==
    [ptr |-> 1,
     heap |-> [q \in (DOMAIN h) \cup {1} |->
                 IF q = 1 THEN Region(GrowCap(0, Len(bytes)), bytes) ELSE h[q]]]

\* vec![] followed by the first write of bytes.
VecNew(h, bytes) ==
    LET p == FreshPtr(h)
    IN [ptr |-> p, heap |-> h @@ (p :> Region(GrowCap(0, Len(bytes)), bytes))]

\* A later write into the Vec behind the writer.
VecExtend(h, p, bytes) ==
    [h EXCEPT ![p] = Region(GrowCap(@.size, Len(@.bytes) + Len(bytes)), @.bytes \o bytes)]

\* A variant of into_boxed_slice that keeps the Vec's capacity.
into_boxed_slice_keep_capacity(h, p) == h

\* buf.into(): Vec<u8> -> Box<[u8]>, the allocation shrunk to the length.
into_boxed_slice(h, p) == [h EXCEPT ![p] = Region(Len(@.bytes), @.bytes)]

\* err.to_string().into_boxed_str(): a fresh allocation of exactly the text's
\* byte length.
into_boxed_str(h, text) ==
    LET p == FreshPtr(h)
        bytes == Utf8Encode(text)
    IN [ptr |-> p, len |-> Len(bytes), heap |-> h @@ (p :> Region(Len(bytes), bytes))]

-----------------------------------------------------------------------------
(* One host thread.  pc is the thread's position: in the host (idle,       *)
(* allocd, ready, returned, outfreed), inside call_scalar (next, invoke,   *)
(* envelope, write, finish, into), inside scalar_ffi_wrapper's match (ok,  *)
(* fail), or panicked.  calls, trace and failedAt record what the call did; *)
(* allocUb is the contract violation of the thread's own alloc call, and   *)
(* pc = "null" says that call returned a null pointer.                     *)

InitThread ==
    [pc |-> "idle", fn |-> "none", inp |-> <<>>, inPtr |-> 0, inLen |-> 0,
     reader |-> <<>>, batch |-> <<>>, arr |-> <<>>, envelope |-> <<>>,
     err |-> <<>>, failedAt |-> "none", buf |-> 0,
     outPtr |-> <<>>, outLen |-> <<>>, ret |-> <<>>,
     writer |-> "unset", calls |-> 0, trace |-> <<>>, allocUb |-> {}]

\* The ? operator: call_scalar returns Err(err) at once.
Propagate(s, err, step) ==
    [s EXCEPT !.pc = "fail", !.err = <<err>>, !.failedAt = step]

\* let mut reader = FileReader::try_new(Cursor::new(input_bytes), None)?;
ParseStep(s, f, input_bytes) ==
    LET r == FileReader_try_new(input_bytes)
        s1 == [s EXCEPT !.fn = f, !.trace = <<"parse">>]
    IN IF r.ok THEN [s1 EXCEPT !.pc = "next", !.reader = <<r>>]
       ELSE Propagate(s1, r.err, "parse")

\* A variant of NextStep that reports a file of no batch as an error.
NextStepNoBatchIsErr(s) ==
    LET nx == FileReader_next(s.reader[1])
    IN CASE nx.tag = "none" -> Propagate(s, MkError("ParseError", DescEof), "parse")
         [] nx.tag = "err" -> Propagate(s, nx.err, "parse")
         [] OTHER -> [s EXCEPT !.pc = "invoke", !.batch = <<nx.batch>>]

\* let input_batch = reader.next().unwrap()?;
NextStep(s) ==
    LET nx == FileReader_next(s.reader[1])
    IN CASE nx.tag = "none" -> [s EXCEPT !.pc = "panicked"]
         [] nx.tag = "err" -> Propagate(s, nx.err, "parse")
         [] OTHER -> [s EXCEPT !.pc = "invoke", !.batch = <<nx.batch>>]

\* A variant of InvokeStep that calls the function again when it fails.
InvokeStepRetry(s) ==
    LET out == Apply(s.fn, s.batch[1])
        s1 == [s EXCEPT !.calls = @ + 1, !.trace = Append(@, "invoke")]
    IN IF out.ok THEN [s1 EXCEPT !.pc = "envelope", !.arr = <<out.array>>]
       ELSE Propagate([s1 EXCEPT !.calls = @ + 1, !.trace = Append(@, "invoke")],
                      out.err, "invoke")

\* A variant of InvokeStep that rejects an array whose length is not the
\* batch's row count.
InvokeStepRowCheck(s) ==
    LET out == Apply(s.fn, s.batch[1])
        s1 == [s EXCEPT !.calls = @ + 1, !.trace = Append(@, "invoke")]
    IN IF ~out.ok THEN Propagate(s1, out.err, "invoke")
       ELSE IF Len(out.array.values) # s.batch[1].rows
       THEN Propagate(s1, MkError("InvalidArgumentError", DescSchema), "invoke")
       ELSE [s1 EXCEPT !.pc = "envelope", !.arr = <<out.array>>]

\* let output_array = function(&input_batch)?;
InvokeStep(s) ==
    LET out == Apply(s.fn, s.batch[1])
        s1 == [s EXCEPT !.calls = @ + 1, !.trace = Append(@, "invoke")]
    IN IF out.ok THEN [s1 EXCEPT !.pc = "envelope", !.arr = <<out.array>>]
       ELSE Propagate(s1, out.err, "invoke")

\* A variant of OutputSchema whose nullability follows the array's content.
OutputSchemaNullFromData(array) == <<Field_new(RESULT, array.type, FALSE)>>

\* Schema::new(vec![Field::new("result", output_array.data_type().clone(), true)])
OutputSchema(array) == <<Field_new(RESULT, array.type, TRUE)>>

\* RecordBatch::try_new(Arc::new(schema), vec![Arc::new(output_array)])
RecordBatch_try_new(schema, array) ==
    IF Len(schema) = 1 /\ schema[1].type = array.type
    THEN [ok |-> TRUE,
          batch |-> [schema |-> schema, rows |-> Len(array.values),
                     columns |-> <<array.values>>]]
    ELSE [ok |-> FALSE, err |-> MkError("InvalidArgumentError", DescSchema)]

\* What the codec's file writer does in one call: it returns Ok at every
\* step, or Err at FileWriter::try_new, at write or at finish.
WriterOutcomes == {"ok", "try_new_err", "write_err", "finish_err"}

\* FileWriter::try_new(&mut buf, &schema): the magic and the schema.
FileWriter_try_new(schema, w) ==
    IF w = "try_new_err" THEN [ok |-> FALSE, err |-> MkError("IoError", DescRefused)]
    ELSE [ok |-> TRUE, bytes |-> MAGIC \o EncodeSchema(schema)]

\* writer.write(&batch): the record-batch block.
FileWriter_write(batch, w) ==
    IF w = "write_err"
    THEN [ok |-> FALSE, err |-> MkError("InvalidArgumentError", DescRefused)]
    ELSE [ok |-> TRUE, bytes |-> EncodeBlock(batch)]

\* writer.finish(): the footer, for the one block written.
FileWriter_finish(w) ==
    IF w = "finish_err" THEN [ok |-> FALSE, err |-> MkError("IoError", DescRefused)]
    ELSE [ok |-> TRUE, bytes |-> EncodeFooter(1)]

\* let mut buf = vec![]; the schema; FileWriter::try_new(&mut buf, &schema)?;
\* RecordBatch::try_new(..)?  The writer puts the magic and the schema in buf.
\* On either Err the Vec is dropped with the frame.
EnvelopeStep(s, h, w) ==
    LET schema == OutputSchema(s.arr[1])
        tn == FileWriter_try_new(schema, w)
        rb == RecordBatch_try_new(schema, s.arr[1])
        s1 == [s EXCEPT !.writer = w, !.trace = Append(@, "envelope")]
    IN IF ~tn.ok THEN [th |-> Propagate(s1, tn.err, "envelope"), heap |-> h]
       ELSE IF ~rb.ok THEN [th |-> Propagate(s1, rb.err, "envelope"), heap |-> h]
       ELSE LET v == VecNew(h, tn.bytes)
            IN [th |-> [s1 EXCEPT !.pc = "write", !.buf = v.ptr,
                                  !.envelope = <<rb.batch>>],
                heap |-> v.heap]

\* writer.write(&batch)?;  On Err the Vec is dropped with the frame.
WriteStep(s, h) ==
    LET w == FileWriter_write(s.envelope[1], s.writer)
        s1 == [s EXCEPT !.trace = Append(@, "write")]
    IN IF w.ok
       THEN [th |-> [s1 EXCEPT !.pc = "finish"], heap |-> VecExtend(h, s.buf, w.bytes)]
       ELSE [th |-> [Propagate(s1, w.err, "write") EXCEPT !.buf = 0],
             heap |-> Remove(h, s.buf)]

\* writer.finish()?; drop(writer);  On Err the Vec is dropped with the frame.
FinishStep(s, h) ==
    LET f == FileWriter_finish(s.writer)
        s1 == [s EXCEPT !.trace = Append(@, "finish")]
    IN IF f.ok
       THEN [th |-> [s1 EXCEPT !.pc = "into"], heap |-> VecExtend(h, s.buf, f.bytes)]
       ELSE [th |-> [Propagate(s1, f.err, "finish") EXCEPT !.buf = 0],
             heap |-> Remove(h, s.buf)]

\* Ok(buf.into())
IntoStep(s, h) ==
    [th |-> [s EXCEPT !.pc = "ok", !.trace = Append(@, "return")],
     heap |-> into_boxed_slice(h, s.buf)]

\* A variant of ReturnOk that takes the input region over and drops it.
ReturnOkDropsInput(s, h) ==
    [th |-> [s EXCEPT !.pc = "returned", !.outPtr = <<s.buf>>,
                      !.outLen = <<Len(h[s.buf].bytes)>>, !.ret = <<0>>],
     heap |-> Remove(h, s.inPtr)]

\* Ok(data) => { out_ptr.write(data.as_ptr()); out_len.write(data.len());
\*               std::mem::forget(data); 0 }
ReturnOk(s, h) ==
    [th |-> [s EXCEPT !.pc = "returned", !.outPtr = <<s.buf>>,
                      !.outLen = <<Len(h[s.buf].bytes)>>, !.ret = <<0>>],
     heap |-> h]

\* A variant of ReturnErr that reports the text's length in characters.
ReturnErrCharLen(s, h) ==
    LET msg == into_boxed_str(h, to_string(s.err[1]))
    IN [th |-> [s EXCEPT !.pc = "returned", !.outPtr = <<msg.ptr>>,
                         !.outLen = <<Len(to_string(s.err[1]))>>, !.ret = <<-1>>],
        heap |-> msg.heap]

\* Err(err) => { let msg = err.to_string().into_boxed_str();
\*               out_ptr.write(msg.as_ptr()); out_len.write(msg.len());
\*               std::mem::forget(msg); -1 }
ReturnErr(s, h) ==
    LET msg == into_boxed_str(h, to_string(s.err[1]))
    IN [th |-> [s EXCEPT !.pc = "returned", !.outPtr = <<msg.ptr>>,
                         !.outLen = <<msg.len>>, !.ret = <<-1>>],
        heap |-> msg.heap]

-----------------------------------------------------------------------------
(* Actions.                                                                *)

Init ==
    /\ heap = <<>>
    /\ ub = {}
    /\ th = [t \in Threads |-> InitThread]

\* The host calls alloc(len) for the input it is about to pass.
Alloc(t) ==
    /\ th[t].pc = "idle"
    /\ \E b \in Inputs : \E o \in alloc(heap, Len(b)) :
         /\ heap' = o.heap
         /\ th' = [th EXCEPT ![t] =
                     [@ EXCEPT !.pc = IF o.ptr = 0 THEN "null" ELSE "allocd",
                               !.inp = b, !.inPtr = o.ptr, !.inLen = Len(b),
                               !.allocUb = o.ub]]
         /\ UNCHANGED ub

\* The host was handed a null pointer and gives the call up.
GiveUp(t) ==
    /\ th[t].pc = "null"
    /\ th' = [th EXCEPT ![t] = InitThread]
    /\ UNCHANGED <<heap, ub>>

\* The host fills the region with the input bytes.
Fill(t) ==
    /\ th[t].pc = "allocd"
    /\ heap' = [heap EXCEPT ![th[t].inPtr].bytes = th[t].inp]
    /\ th' = [th EXCEPT ![t].pc = "ready"]
    /\ UNCHANGED ub

\* scalar_ffi_wrapper(function, ptr, len, out_ptr, out_len) is entered.
Enter(t) ==
    /\ th[t].pc = "ready"
    /\ \E f \in Functions :
         th' = [th EXCEPT ![t] =
                  ParseStep(@, f, from_raw_parts(heap, @.inPtr, @.inLen))]
    /\ UNCHANGED <<heap, ub>>

ReadNext(t) ==
    /\ th[t].pc = "next"
    /\ th' = [th EXCEPT ![t] = NextStep(@)]
    /\ UNCHANGED <<heap, ub>>

Invoke(t) ==
    /\ th[t].pc = "invoke"
    /\ th' = [th EXCEPT ![t] = InvokeStep(@)]
    /\ UNCHANGED <<heap, ub>>

\* A step of the wrapper that touches the heap.
HeapStep(t, o) ==
    /\ th' = [th EXCEPT ![t] = o.th]
    /\ heap' = o.heap
    /\ UNCHANGED ub

Envelope(t) ==
    /\ th[t].pc = "envelope"
    /\ \E w \in WriterOutcomes : HeapStep(t, EnvelopeStep(th[t], heap, w))

Write(t) == th[t].pc = "write" /\ HeapStep(t, WriteStep(th[t], heap))

Finish(t) == th[t].pc = "finish" /\ HeapStep(t, FinishStep(th[t], heap))

Into(t) == th[t].pc = "into" /\ HeapStep(t, IntoStep(th[t], heap))

RetOk(t) == th[t].pc = "ok" /\ HeapStep(t, ReturnOk(th[t], heap))

RetErr(t) == th[t].pc = "fail" /\ HeapStep(t, ReturnErr(th[t], heap))

\* The host releases the buffer it was handed, with the reported length.
DeallocOut(t) ==
    /\ th[t].pc = "returned"
    /\ LET o == dealloc(heap, th[t].outPtr[1], th[t].outLen[1])
       IN /\ heap' = o.heap
          /\ ub' = ub \cup o.ub
    /\ th' = [th EXCEPT ![t].pc = "outfreed"]

\* The host releases its input region and is ready for another call.
DeallocIn(t) ==
    /\ th[t].pc = "outfreed"
    /\ LET o == dealloc(heap, th[t].inPtr, th[t].inLen)
       IN /\ heap' = o.heap
          /\ ub' = ub \cup o.ub
    /\ th' = [th EXCEPT ![t] = InitThread]

Next ==
    \E t \in Threads :
        \/ Alloc(t) \/ GiveUp(t) \/ Fill(t) \/ Enter(t) \/ ReadNext(t) \/ Invoke(t)
        \/ Envelope(t) \/ Write(t) \/ Finish(t) \/ Into(t)
        \/ RetOk(t) \/ RetErr(t) \/ DeallocOut(t) \/ DeallocIn(t)

Spec == Init /\ [][Next]_vars

-----------------------------------------------------------------------------
(* call_scalar as a function of (function, input_bytes) and of what the    *)
(* codec's writer does: what one call run alone returns.                   *)

call_scalar(function, input_bytes, w) ==
    LET r == FileReader_try_new(input_bytes)
    IN IF ~r.ok THEN [tag |-> "err", err |-> r.err]
       ELSE LET nx == FileReader_next(r)
            IN IF nx.tag = "none" THEN [tag |-> "panic"]
               ELSE IF nx.tag = "err" THEN [tag |-> "err", err |-> nx.err]
               ELSE LET out == Apply(function, nx.batch)
                    IN IF ~out.ok THEN [tag |-> "err", err |-> out.err]
                       ELSE LET schema == OutputSchema(out.array)
                                tn == FileWriter_try_new(schema, w)
                                rb == RecordBatch_try_new(schema, out.array)
                                wr == FileWriter_write(rb.batch, w)
                                fi == FileWriter_finish(w)
                            IN IF ~tn.ok THEN [tag |-> "err", err |-> tn.err]
                               ELSE IF ~rb.ok THEN [tag |-> "err", err |-> rb.err]
                               ELSE IF ~wr.ok THEN [tag |-> "err", err |-> wr.err]
                               ELSE IF ~fi.ok THEN [tag |-> "err", err |-> fi.err]
                               ELSE [tag |-> "ok",
                                     data |-> tn.bytes \o wr.bytes \o fi.bytes]

-----------------------------------------------------------------------------
(* Vocabulary of the properties.                                           *)

\* The call of thread t has returned and the host still holds its buffer.
Returned(t) == th[t].pc = "returned"

\* The bytes the out slots describe.
OutBytes(t) == SubSeq(heap[th[t].outPtr[1]].bytes, 1, th[t].outLen[1])

\* What the reader makes of each input: a well-formed file whose one batch
\* decodes, a well-formed file that holds no batch, or neither.
InputKind ==
    [b \in Inputs |->
        LET r == FileReader_try_new(b)
        IN IF ~r.ok THEN "malformed"
           ELSE IF r.blocks = 0 THEN "zero"
           ELSE IF r.blocks = 1 /\ FileReader_next(r).tag = "ok" THEN "one"
           ELSE "malformed"]

OneBatch(b) == InputKind[b] = "one"

ZeroBatches(b) == InputKind[b] = "zero"

\* deserialize(b) for each file of one batch.
Deserialized ==
    [b \in {x \in Inputs : OneBatch(x)} |->
        FileReader_next(FileReader_try_new(b)).batch]

Deserialize(b) == Deserialized[b]

\* function(deserialize(b)), for each function and each file of one batch.
Results ==
    [f \in Functions |-> [b \in DOMAIN Deserialized |-> Apply(f, Deserialized[b])]]

Result(f, b) == Results[f][b]

\* call_scalar run alone, for each function, input and writer.
Alone ==
    [f \in Functions |->
        [b \in Inputs |->
            [w \in WriterOutcomes \cup {"unset"} |-> call_scalar(f, b, w)]]]

\* The envelope of the array is one the writer writes.
WriterAccepts(array, w) ==
    LET schema == OutputSchema(array)
        rb == RecordBatch_try_new(schema, array)
    IN /\ FileWriter_try_new(schema, w).ok
       /\ rb.ok
       /\ FileWriter_write(rb.batch, w).ok
       /\ FileWriter_finish(w).ok

\* out parses as exactly one batch of exactly one column, named "result", of
\* the array's type, nullable, holding the array's values.
IsResultFileOf(out, array) ==
    LET r == FileReader_try_new(out)
        nx == FileReader_next(r)
    IN /\ r.ok
       /\ r.blocks = 1
       /\ r.schema = <<[name |-> RESULT, type |-> array.type, nullable |-> TRUE]>>
       /\ nx.tag = "ok"
       /\ nx.batch.rows = Len(array.values)
       /\ nx.batch.columns = <<array.values>>
       /\ r.pos + Len(array.values) = r.lim

\* The regions thread t owns: its input, the Vec or Box of the call in
\* progress, the buffer it was handed.
Owned(t) ==
    (IF th[t].pc \in {"idle", "null"} THEN {} ELSE {th[t].inPtr})
    \cup (IF th[t].pc \in {"write", "finish", "into", "ok"} THEN {th[t].buf} ELSE {})
    \cup (IF Returned(t) THEN {th[t].outPtr[1]} ELSE {})

InWrapper(t) ==
    th[t].pc \in {"next", "invoke", "envelope", "write", "finish", "into", "ok", "fail"}

-----------------------------------------------------------------------------
(* Properties.                                                             *)

\* C1 (as stated): for every function that succeeds and every well-formed
\* input of one batch, the wrapper returns 0 and the out slots describe a file
\* of one batch with the one nullable column "result" holding f(deserialize(b)).
C1_SuccessForEverySucceedingFunction ==
    \A t \in Threads :
        (Returned(t) /\ OneBatch(th[t].inp)) =>
            LET out == Result(th[t].fn, th[t].inp)
            IN out.ok => /\ th[t].ret = <<0>>
                         /\ IsResultFileOf(OutBytes(t), out.array)

\* C1 (amended): the same, for the calls in which the writer accepts the
\* function's array (FileWriter::try_new, RecordBatch::try_new, write and
\* finish all return Ok).
C1_SuccessWhenWriterAccepts ==
    \A t \in Threads :
        (Returned(t) /\ OneBatch(th[t].inp)) =>
            LET out == Result(th[t].fn, th[t].inp)
            IN (out.ok /\ WriterAccepts(out.array, th[t].writer))
                   => /\ th[t].ret = <<0>>
                      /\ IsResultFileOf(OutBytes(t), out.array)

\* x:int32 [1, 2, 3] through x + 1 has returned result:int32 [2, 3, 4], status 0.
C1_Witness ==
    \E t \in Threads :
        /\ Returned(t)
        /\ th[t].fn = "add_one"
        /\ th[t].inp = IpcFile(InputBatch(3))
        /\ th[t].ret = <<0>>
        /\ OutBytes(t) = IpcFile([schema |-> <<Field_new(RESULT, "int32", TRUE)>>,
                                  rows |-> 3, columns |-> << <<2, 3, 4>> >>])

\* C2: whenever call_scalar fails (the parse, the function, or the writer at
\* try_new, write or finish), the wrapper
\* returns -1 and the out slots hold the address and the byte length of a
\* buffer that is the UTF-8 of the error's text, the same way for every kind;
\* the status is 0 exactly when call_scalar succeeded.
C2_ErrorsReportedAsText ==
    \A t \in Threads :
        Returned(t) =>
            LET r == Alone[th[t].fn][th[t].inp][th[t].writer]
            IN /\ (th[t].ret = <<0>>) <=> (r.tag = "ok")
               /\ r.tag = "err" =>
                     /\ th[t].ret = <<-1>>
                     /\ th[t].outPtr[1] \in DOMAIN heap
                     /\ th[t].outLen[1] = Len(heap[th[t].outPtr[1]].bytes)
                     /\ OutBytes(t) = Utf8Encode(to_string(r.err))
                     /\ Utf8Valid(OutBytes(t))

\* One call has returned a parse failure and another a function failure whose
\* text holds a character of two bytes.
C2_Witness ==
    \E t, u \in Threads :
        /\ Returned(t) /\ th[t].failedAt = "parse" /\ th[t].ret = <<-1>>
        /\ Returned(u) /\ th[u].failedAt = "invoke" /\ th[u].ret = <<-1>>
        /\ th[u].outLen[1] > Len(to_string(th[u].err[1]))

\* C3: every call ends by returning a status in {0, -1} with both out slots
\* written; no call ends in a panic.
C3_EveryCallReturnsAStatus ==
    \A t \in Threads :
        /\ th[t].pc # "panicked"
        /\ Returned(t) =>
              /\ th[t].ret \in {<<0>>, <<-1>>}
              /\ Len(th[t].outPtr) = 1
              /\ Len(th[t].outLen) = 1

\* C4: a buffer reported through the out slots is live when the call returns,
\* its reported length is the size it was allocated with, and with the host
\* deallocating each returned buffer once with that length nothing is freed
\* twice or with a wrong size and nothing stays live that no thread owns.
C4_BuffersDestroyedExactlyOnce ==
    /\ "dealloc_mismatch" \notin ub
    /\ \A t \in Threads :
          Returned(t) =>
              /\ th[t].outPtr[1] \in DOMAIN heap
              /\ heap[th[t].outPtr[1]].size = th[t].outLen[1]
              /\ th[t].outPtr[1] # th[t].inPtr
    /\ DOMAIN heap = UNION {Owned(t) : t \in Threads}
    /\ \A t, u \in Threads : t # u => Owned(t) \cap Owned(u) = {}

\* Both threads have released the buffer they were handed, one a result and
\* one an error text; only their two input regions are live.
C4_Witness ==
    /\ \A t \in Threads : th[t].pc = "outfreed"
    /\ \E t, u \in Threads : th[t].ret = <<0>> /\ th[u].ret = <<-1>>
    /\ Cardinality(DOMAIN heap) = 2

\* C5: across alloc/fill/dealloc cycles of any length, zero included, every
\* alloc returns a fresh region of len bytes and no call reaches an undefined
\* state.
C5_AllocDeallocAlwaysDefined ==
    /\ ub = {}
    /\ \A t \in Threads :
          /\ th[t].allocUb = {}
          /\ th[t].pc # "null"
          /\ th[t].pc = "allocd" =>
                /\ th[t].inPtr \in DOMAIN heap
                /\ heap[th[t].inPtr].size = th[t].inLen

\* C6: on a well-formed input of zero batches the call panics, before the
\* function is invoked and before either out slot is written, and it never
\* returns a status; a panic has no other cause.
C6_ZeroBatchesPanics ==
    \A t \in Threads :
        /\ th[t].pc = "panicked" =>
              /\ ZeroBatches(th[t].inp)
              /\ th[t].calls = 0
              /\ th[t].outPtr = <<>> /\ th[t].outLen = <<>> /\ th[t].ret = <<>>
        /\ (th[t].pc \notin {"idle", "null", "allocd", "ready"} /\ ZeroBatches(th[t].inp))
              => th[t].pc \in {"next", "panicked"}

C6_Witness ==
    \E t \in Threads : th[t].pc = "panicked" /\ th[t].inp = ZeroBatchInput

\* The steps of call_scalar in the order of the code.
StepOrder == <<"parse", "invoke", "envelope", "write", "finish", "return">>

IsPrefix(a, b) == Len(a) <= Len(b) /\ a = SubSeq(b, 1, Len(a))

\* C7: the steps of one call run in the order parse, invoke, envelope, write,
\* finish, return; the function is invoked at most once and only after the
\* input parsed; a function error is handed on at once and unchanged, with no
\* retry and no output written or returned.
C7_StepsInOrderNoRetry ==
    \A t \in Threads :
        /\ IsPrefix(th[t].trace, StepOrder)
        /\ th[t].calls <= 1
        /\ th[t].calls = Cardinality({i \in 1..Len(th[t].trace) : th[t].trace[i] = "invoke"})
        /\ th[t].calls = 1 => OneBatch(th[t].inp)
        /\ th[t].failedAt = "parse" => th[t].calls = 0 /\ th[t].trace = <<"parse">>
        /\ th[t].pc = "ok" => th[t].trace = StepOrder
        /\ th[t].failedAt = "invoke" =>
              LET out == Result(th[t].fn, th[t].inp)
              IN /\ ~out.ok
                 /\ th[t].err = <<out.err>>
                 /\ th[t].trace = <<"parse", "invoke">>
                 /\ th[t].buf = 0
                 /\ Returned(t) =>
                       /\ th[t].ret = <<-1>>
                       /\ OutBytes(t) = Utf8Encode(to_string(out.err))

\* A call whose function failed has returned, and another has run all steps.
C7_Witness ==
    \E t, u \in Threads :
        /\ Returned(t) /\ th[t].failedAt = "invoke" /\ th[t].calls = 1
        /\ Returned(u) /\ th[u].ret = <<0>> /\ th[u].trace = StepOrder

\* C8: an array whose length differs from the batch's row count is not
\* rejected: the function step does not fail, and (the writer accepting the
\* array) the call returns 0 with an output batch of the array's length.
C8_RowCountNotChecked ==
    \A t \in Threads :
        (/\ th[t].pc \in {"envelope", "write", "finish", "into", "ok", "fail",
                          "returned", "outfreed"}
         /\ OneBatch(th[t].inp)) =>
            LET out == Result(th[t].fn, th[t].inp)
            IN (out.ok /\ Len(out.array.values) # Deserialize(th[t].inp).rows) =>
                  /\ th[t].failedAt \notin {"parse", "invoke"}
                  /\ th[t].arr = <<out.array>>
                  /\ (Returned(t) /\ WriterAccepts(out.array, th[t].writer)) =>
                        LET nx == FileReader_next(FileReader_try_new(OutBytes(t)))
                        IN /\ th[t].ret = <<0>>
                           /\ nx.batch.rows = Len(out.array.values)
                           /\ nx.batch.columns = <<out.array.values>>

\* Three rows in, two rows out, status 0.
C8_Witness ==
    \E t \in Threads :
        /\ Returned(t)
        /\ th[t].fn = "drop_last"
        /\ th[t].inp = IpcFile(InputBatch(3))
        /\ th[t].ret = <<0>>
        /\ FileReader_next(FileReader_try_new(OutBytes(t))).batch.rows = 2
        /\ FileReader_next(FileReader_try_new(OutBytes(t))).batch.columns = << <<1, 2>> >>

\* C9: whatever the other thread does, a call returns the status and the
\* bytes that call_scalar gives alone for its function and input bytes (and
\* what the codec's writer answers in that call), and the buffers of two calls
\* are different regions, none owned by the other thread.
C9_CallsIndependent ==
    /\ \A t \in Threads :
          Returned(t) =>
              LET r == Alone[th[t].fn][th[t].inp][th[t].writer]
              IN /\ r.tag # "panic"
                 /\ r.tag = "ok" => th[t].ret = <<0>> /\ OutBytes(t) = r.data
                 /\ r.tag = "err" =>
                       th[t].ret = <<-1>> /\ OutBytes(t) = Utf8Encode(to_string(r.err))
    /\ \A t, u \in Threads :
          (t # u /\ Returned(t)) => th[t].outPtr[1] \notin Owned(u)

\* Two calls of the same function on the same input hold equal bytes in two
\* regions.
C9_Witness ==
    \E t, u \in Threads :
        /\ t # u /\ Returned(t) /\ Returned(u)
        /\ th[t].fn = th[u].fn /\ th[t].inp = th[u].inp
        /\ th[t].ret = <<0>> /\ th[u].ret = <<0>>
        /\ th[t].outPtr # th[u].outPtr
        /\ OutBytes(t) = OutBytes(u)

\* C10: from the wrapper's entry until the host releases it, the input region
\* is live with its size and bytes unchanged, on the success and on the error
\* path, and the returned buffer is another region.
C10_InputOnlyBorrowed ==
    \A t \in Threads :
        /\ (InWrapper(t) \/ th[t].pc \in {"returned", "outfreed", "panicked"}) =>
              /\ th[t].inPtr \in DOMAIN heap
              /\ heap[th[t].inPtr] = Region(th[t].inLen, th[t].inp)
        /\ Returned(t) => th[t].outPtr[1] # th[t].inPtr

\* One call has returned a result and one an error; both inputs are intact.
C10_Witness ==
    \E t, u \in Threads :
        /\ Returned(t) /\ th[t].ret = <<0>>
        /\ Returned(u) /\ th[u].ret = <<-1>>
        /\ heap[th[t].inPtr].bytes = th[t].inp /\ th[t].inLen > 0
        /\ heap[th[u].inPtr].bytes = th[u].inp /\ th[u].inLen > 0

====
